---- MODULE Spec2Model ----
(***************************************************************************)
(* Live probability engine of the 90-ball bingo calculator                 *)
(* (src/services/bingoCalculator.ts) as it is driven by the GameScreen     *)
(* component (src/components/GameScreen.tsx): the component receives the   *)
(* user's cards and the number of cards in play as props, owns the drawn   *)
(* set, and recomputes the live snapshot on every change of the drawn set. *)
(*                                                                         *)
(* Numbers.  The engine works in IEEE doubles.  The model keeps            *)
(*   - hit probabilities as exact fractions num/den (a quotient of two     *)
(*     small integers is one double, and two such quotients are the same   *)
(*     double exactly when the fractions are equal);                       *)
(*   - logarithms in fixed point, millionths of a nat (LnMicro), which is  *)
(*     how the source itself computes the hypergeometric term;             *)
(*   - the factor Math.pow(1 - 1/R, E) by its position relative to 0 and   *)
(*     1: "zero", "one", or "frac" (strictly between), where "one" covers  *)
(*     the powers whose distance to 1 is below half an ulp of 1 (2^-54)    *)
(*     and which a double therefore cannot tell from 1.                    *)
(***************************************************************************)
EXTENDS Integers, Sequences, FiniteSets, TLC

VARIABLES userCards, totalCardsInPlay, drawnNumbers, liveStats

\* A series of calls of hypergeometricProbability: its arguments, the value
\* of the last call and the running sum of the values.
VARIABLE hyper

\* The state of App (src/App.tsx) besides userCards, and the number of OCR
\* requests that have been sent and not yet answered.
VARIABLES view, isLoadingOcr, ocrError, gameTotalCards, startGamePromptVisible,
          gameTotalCardsInput, setupError, ocrRequests

\* The OCR requests in flight that were started before the last onNewGame.
VARIABLE staleOcrRequests

\* The rest of the state of GameScreen: the numbers in the order they were
\* marked, and the text of the input field.
VARIABLES drawnNumbersHistory, inputValue

\* What the handlers of GameScreen closed over at the last render: the drawn
\* set and the text of the field as rendered, and the number of events
\* handled since.
VARIABLE rendered

\* The theory calculator of the earlier App (src/unnamed/part_002): its
\* state, and the arrays `data` and `adjustedData` of a running handleCalculate.
VARIABLES totalCardsStr, totalCards, chartData, error, isCalculated, data, adjustedData

\* A call of combinations: its arguments and its value.
VARIABLE combination

vars == <<userCards, totalCardsInPlay, drawnNumbers, liveStats, hyper,
          view, isLoadingOcr, ocrError, gameTotalCards, startGamePromptVisible,
          gameTotalCardsInput, setupError, ocrRequests, staleOcrRequests,
          drawnNumbersHistory, inputValue, rendered,
          totalCardsStr, totalCards, chartData, error, isCalculated, data, adjustedData,
          combination>>

\* The theory calculator.
calculatorVars ==
  <<totalCardsStr, totalCards, chartData, error, isCalculated, data, adjustedData,
    combination>>

\* The state of App besides userCards.
appVars == <<view, isLoadingOcr, ocrError, gameTotalCards, startGamePromptVisible,
             gameTotalCardsInput, setupError, ocrRequests, staleOcrRequests>>

\* What the engine neither reads nor writes.
outsideEngine ==
  <<hyper, appVars, drawnNumbersHistory, inputValue, rendered, calculatorVars>>

(***************************************************************************)
(* Bounds of the model.                                                    *)
(***************************************************************************)
MaxCards == 2
MaxTotal == 2

\* The largest population whose hypergeometric terms are summed.
MaxPopulation == 7

\* The largest number of cards the theoretical chart is calculated for.
MaxChartCards == 2

\* The largest number of events GameScreen handles between two renders.
MaxUnrendered == 2

(***************************************************************************)
(* Values.                                                                 *)
(***************************************************************************)
\* The empty cell of a card (BingoNumber = number | null).
Null == -1

\* The sentinel of "no card": larger than every count the engine computes.
Infinity == 1000000

\* log(0), the value logCombinations gives for an impossible choice.
NegInfinity == -1000000000

RECURSIVE GCD(_, _)
GCD(a, b) == IF b = 0 THEN a ELSE GCD(b, a % b)

\* The double a / b of two non-negative integers, b > 0, as a fraction in
\* lowest terms.
Quotient(a, b) == LET g == GCD(a, b) IN [num |-> a \div g, den |-> b \div g]

ZeroProb == [num |-> 0, den |-> 1]
OneProb == [num |-> 1, den |-> 1]

RatLeq(p, q) == p.num * q.den <= q.num * p.den
RatLess(p, q) == p.num * q.den < q.num * p.den

\* Math.log(i) for i = 1..90, in millionths.
LnMicro ==
  <<
     0, 693147, 1098612, 1386294, 1609438, 1791759, 1945910, 2079442, 2197225, 2302585,
     2397895, 2484907, 2564949, 2639057, 2708050, 2772589, 2833213, 2890372, 2944439, 2995732,
     3044522, 3091042, 3135494, 3178054, 3218876, 3258097, 3295837, 3332205, 3367296, 3401197,
     3433987, 3465736, 3496508, 3526361, 3555348, 3583519, 3610918, 3637586, 3663562, 3688879,
     3713572, 3737670, 3761200, 3784190, 3806662, 3828641, 3850148, 3871201, 3891820, 3912023,
     3931826, 3951244, 3970292, 3988984, 4007333, 4025352, 4043051, 4060443, 4077537, 4094345,
     4110874, 4127134, 4143135, 4158883, 4174387, 4189655, 4204693, 4219508, 4234107, 4248495,
     4262680, 4276666, 4290459, 4304065, 4317488, 4330733, 4343805, 4356709, 4369448, 4382027,
     4394449, 4406719, 4418841, 4430817, 4442651, 4454347, 4465908, 4477337, 4488636, 4499810
  >>

\* log(-log(1 - 1/R)) for R = 2..90, in millionths (entry 1 is unused:
\* the base 1 - 1/1 is 0).
LnNegLnBase ==
  <<
     0, -366513, -902720, -1245899, -1499940, -1701983, -1869825, -2013419, -2138911, -2250367,
     -2350619, -2441716, -2525195, -2602232, -2673752, -2740493, -2803054, -2861929, -2917527, -2970195,
     -3020227, -3067873, -3113351, -3156849, -3198534, -3238550, -3277026, -3314076, -3349801, -3384294,
     -3417637, -3449904, -3481161, -3511471, -3540889, -3569467, -3597250, -3624282, -3650602, -3676247,
     -3701251, -3725645, -3749458, -3772717, -3795447, -3817672, -3839414, -3860693, -3881528, -3901939,
     -3921941, -3941550, -3960783, -3979653, -3998173, -4016356, -4034215, -4051760, -4069002, -4085953,
     -4102621, -4119015, -4135145, -4151019, -4166645, -4182031, -4197183, -4212109, -4226816, -4241309,
     -4255596, -4269681, -4283571, -4297270, -4310784, -4324118, -4337277, -4350264, -4363085, -4375744,
     -4388244, -4400590, -4412786, -4424835, -4436740, -4448505, -4460133, -4471628, -4482992, -4494228
  >>

\* log(2^-54), in millionths: half an ulp of 1.
LnHalfUlp == -37429948

(***************************************************************************)
(* Combinatorics in log space.                                             *)
(***************************************************************************)
\* LOG_FACTORIALS[i] = LOG_FACTORIALS[i - 1] + Math.log(i), LOG_FACTORIALS[0] = 0.
RECURSIVE LogFactorialSum(_)
LogFactorialSum(i) == IF i = 0 THEN 0 ELSE LogFactorialSum(i - 1) + LnMicro[i]

\* The table, filled once.
LogFactorialTable == [i \in 0..90 |-> LogFactorialSum(i)]

LOG_FACTORIALS(i) == LogFactorialTable[i]

\* a + b on logarithms, with -Infinity absorbing.
LogAdd(a, b) == IF a = NegInfinity \/ b = NegInfinity THEN NegInfinity ELSE a + b

\* Slip: the factorial of n - k left out.
logCombinationsOrdered(n, k) ==
  IF k < 0 \/ k > n
    THEN NegInfinity
    ELSE LOG_FACTORIALS(n) - LOG_FACTORIALS(k)

logCombinations(n, k) ==
  IF k < 0 \/ k > n
    THEN NegInfinity
    ELSE LOG_FACTORIALS(n) - LOG_FACTORIALS(k) - LOG_FACTORIALS(n - k)

\* A non-negative double kept by its logarithm: zero, or exp(ln / 10^6).
ZeroFloat == [zero |-> TRUE, ln |-> 0]

\* Math.exp(l): exp(-Infinity) is 0.
Exp(l) == IF l = NegInfinity THEN ZeroFloat ELSE [zero |-> FALSE, ln |-> l]

\* Slip: the failures are chosen from the whole sample.
hypergeometricProbabilityOfSample(population, successesInPopulation, sampleSize, successesInSample) ==
  IF \/ sampleSize < 0
     \/ successesInSample < 0
     \/ sampleSize > population
     \/ successesInSample > successesInPopulation
     \/ (sampleSize - successesInSample) > (population - successesInPopulation)
    THEN ZeroFloat
    ELSE LET logProb ==
               LogAdd(LogAdd(logCombinations(successesInPopulation, successesInSample),
                             logCombinations(population - successesInPopulation,
                                             sampleSize)),
                      0 - logCombinations(population, sampleSize))
         IN  Exp(logProb)

hypergeometricProbability(population, successesInPopulation, sampleSize, successesInSample) ==
  IF \/ sampleSize < 0
     \/ successesInSample < 0
     \/ sampleSize > population
     \/ successesInSample > successesInPopulation
     \/ (sampleSize - successesInSample) > (population - successesInPopulation)
    THEN ZeroFloat
    ELSE LET logProb ==
               LogAdd(LogAdd(logCombinations(successesInPopulation, successesInSample),
                             logCombinations(population - successesInPopulation,
                                             sampleSize - successesInSample)),
                      0 - logCombinations(population, sampleSize))
         IN  Exp(logProb)

\* No series of calls.
NoCalls ==
  [population |-> 0, successesInPopulation |-> 0, sampleSize |-> -1,
   successesInSample |-> -2, value |-> ZeroFloat, sum |-> 0]

\* count * p for an integer count in 0..90: the expected number of ready
\* opponent rows or cards.
ExpectedReady(count, p) ==
  IF count = 0 \/ p.zero THEN ZeroFloat
  ELSE [zero |-> FALSE, ln |-> LnMicro[count] + p.ln]

\* Math.pow(1 - 1 / remainingBallsCount, expected) for expected > 0, by its
\* position relative to 0 and 1.  With one ball left the base is 0.  Otherwise
\* the power is exp(-expected * -log(base)) < 1, and the double is 1 when the
\* distance to 1 is under half an ulp.
PowOfBase(remainingBallsCount, expected) ==
  IF remainingBallsCount = 1 THEN "zero"
  ELSE IF expected.ln + LnNegLnBase[remainingBallsCount] < LnHalfUlp THEN "one"
  ELSE "frac"

\* 1 - x for x in [0, 1], by position.
OneMinus(x) == CASE x = "zero" -> "one" [] x = "one" -> "zero" [] OTHER -> "frac"

\* Slip: the branches of the conditional exchanged.
probOpponentWinsInverted(remainingBallsCount, expected) ==
  IF ~expected.zero
    THEN "zero"
    ELSE OneMinus(PowOfBase(remainingBallsCount, expected))

\* expected > 0 ? 1 - Math.pow(1 - 1 / remainingBallsCount, expected) : 0
probOpponentWins(remainingBallsCount, expected) ==
  IF ~expected.zero
    THEN OneMinus(PowOfBase(remainingBallsCount, expected))
    ELSE "zero"

\* A win probability: the double hit * keep, hit a fraction and keep the
\* factor 1 - probOpponentWins by position.  Zero has one representation.
ZeroWin == [hit |-> ZeroProb, keep |-> "one"]

\* probHit * (1 - probOpponentWins)
Times(probHit, probOpponent) ==
  LET keep == OneMinus(probOpponent)
  IN  IF probHit.num = 0 \/ keep = "zero" THEN ZeroWin
      ELSE [hit |-> probHit, keep |-> keep]

\* Slip: clamps a percentage.
MinOnePercent(p) ==
  IF p.num * 100 > 100 * p.den THEN [num |-> 100, den |-> 1]
  ELSE Quotient(p.num * 100, p.den)

\* Math.min(p, 1) on a hit probability.
MinOne(p) == IF RatLess(OneProb, p) THEN OneProb ELSE p

\* Math.max(0, Math.min(w, 1)) on a win probability.  hit * keep is never
\* negative; it exceeds 1 only if hit does.
ClampWin(w) ==
  IF RatLeq(w.hit, OneProb) THEN w
  ELSE IF w.keep = "one" THEN [hit |-> OneProb, keep |-> "one"]
  ELSE w

(***************************************************************************)
(* The live engine.                                                        *)
(***************************************************************************)
\* row.filter(n => n !== null)
rowNumbers(row) == SelectSeq(row, LAMBDA n : n # Null)

\* card.flat().filter(n => n !== null)
RECURSIVE Flat(_)
Flat(card) == IF card = <<>> THEN <<>> ELSE Head(card) \o Flat(Tail(card))

flatNumbers(card) == rowNumbers(Flat(card))

\* numbers.filter(n => drawnNumbers.has(n)).length
Hits(numbers, drawn) == Len(SelectSeq(numbers, LAMBDA n : n \in drawn))

\* Slip: counts the distinct drawn numbers of the card, not its drawn cells.
cardNeededDistinct(card, drawn) ==
  15 - Cardinality({n \in {flatNumbers(card)[i] : i \in DOMAIN flatNumbers(card)} : n \in drawn})

cardNeeded(card, drawn) == 15 - Hits(flatNumbers(card), drawn)

lineNeeded(row, drawn) == 5 - Hits(rowNumbers(row), drawn)

\* Slip: takes any row of 5 numbers or more for a line.
IsLineAtLeast(row) == Len(rowNumbers(row)) >= 5

\* Ensure it's a valid line of 5 numbers.
IsLine(row) == Len(rowNumbers(row)) = 5

\* First pass, card.forEach(row => ...): the running minimum over the rows.
RECURSIVE MinOverRows(_, _, _)
MinOverRows(rows, drawn, min) ==
  IF rows = <<>> THEN min
  ELSE LET row == Head(rows)
           next == IF IsLine(row) /\ lineNeeded(row, drawn) < min
                     THEN lineNeeded(row, drawn) ELSE min
       IN  MinOverRows(Tail(rows), drawn, next)

RECURSIVE MinNeededForLine(_, _, _)
MinNeededForLine(cards, drawn, min) ==
  IF cards = <<>> THEN min
  ELSE MinNeededForLine(Tail(cards), drawn, MinOverRows(Head(cards), drawn, min))

RECURSIVE MinNeededForBingo(_, _, _)
MinNeededForBingo(cards, drawn, min) ==
  IF cards = <<>> THEN min
  ELSE LET needed == cardNeeded(Head(cards), drawn)
       IN  MinNeededForBingo(Tail(cards), drawn, IF needed < min THEN needed ELSE min)

\* numbers.forEach(num => { if (!drawnNumbers.has(num)) outs.add(num) })
Undrawn(numbers, drawn) == {numbers[i] : i \in DOMAIN numbers} \ drawn

\* Slip: the rows are not compared with the minimum.
RECURSIVE LineOutsOfRowsAll(_, _, _, _)
LineOutsOfRowsAll(rows, drawn, minNeededForLine, outs) ==
  IF rows = <<>> THEN outs
  ELSE LET row == Head(rows)
           next == IF IsLine(row)
                     THEN outs \cup Undrawn(rowNumbers(row), drawn) ELSE outs
       IN  LineOutsOfRowsAll(Tail(rows), drawn, minNeededForLine, next)

\* Second pass, card.forEach(row => ...): the outs of the rows of one card.
RECURSIVE LineOutsOfRows(_, _, _, _)
LineOutsOfRows(rows, drawn, minNeededForLine, outs) ==
  IF rows = <<>> THEN outs
  ELSE LET row == Head(rows)
           next == IF IsLine(row) /\ lineNeeded(row, drawn) = minNeededForLine
                     THEN outs \cup Undrawn(rowNumbers(row), drawn) ELSE outs
       IN  LineOutsOfRows(Tail(rows), drawn, minNeededForLine, next)

RECURSIVE LineOutsOfCards(_, _, _, _)
LineOutsOfCards(cards, drawn, minNeededForLine, outs) ==
  IF cards = <<>> THEN outs
  ELSE LineOutsOfCards(Tail(cards), drawn, minNeededForLine,
                       LineOutsOfRows(Head(cards), drawn, minNeededForLine, outs))

CollectLineOuts(cards, drawn, minNeededForLine) ==
  IF minNeededForLine <= 5 /\ minNeededForLine > 0
    THEN LineOutsOfCards(cards, drawn, minNeededForLine, {})
    ELSE {}

\* Slip: the outs of the first card at the minimum only.
RECURSIVE BingoOutsOfCardsFirst(_, _, _, _)
BingoOutsOfCardsFirst(cards, drawn, minNeededForBingo, outs) ==
  IF cards = <<>> THEN outs
  ELSE LET card == Head(cards)
       IN  IF cardNeeded(card, drawn) = minNeededForBingo
             THEN outs \cup Undrawn(flatNumbers(card), drawn)
             ELSE BingoOutsOfCardsFirst(Tail(cards), drawn, minNeededForBingo, outs)

RECURSIVE BingoOutsOfCards(_, _, _, _)
BingoOutsOfCards(cards, drawn, minNeededForBingo, outs) ==
  IF cards = <<>> THEN outs
  ELSE LET card == Head(cards)
           next == IF cardNeeded(card, drawn) = minNeededForBingo
                     THEN outs \cup Undrawn(flatNumbers(card), drawn) ELSE outs
       IN  BingoOutsOfCards(Tail(cards), drawn, minNeededForBingo, next)

CollectBingoOuts(cards, drawn, minNeededForBingo) ==
  IF minNeededForBingo <= 15 /\ minNeededForBingo > 0
    THEN BingoOutsOfCards(cards, drawn, minNeededForBingo, {})
    ELSE {}

OpponentCardCount(total, userCardCount) ==
  IF total > userCardCount THEN total - userCardCount ELSE 0

RemainingBallsCount(ballsDrawnCount) == 90 - ballsDrawnCount

initialResult ==
  [neededForLine |-> Infinity,
   neededForBingo |-> Infinity,
   probHitLineOut |-> ZeroProb,
   probHitBingoOut |-> ZeroProb,
   probUserWinsLineNextDraw |-> ZeroWin,
   probUserWinsBingoNextDraw |-> ZeroWin,
   lineOuts |-> {},
   bingoOuts |-> {}]

\* Slip: < for <=, the exhausted pool is not caught.
IsDegenerateStrict(userCardCount, remainingBallsCount) ==
  userCardCount = 0 \/ remainingBallsCount < 0

\* if (userCardCount === 0 || remainingBallsCount <= 0) return initialResult
IsDegenerate(userCardCount, remainingBallsCount) ==
  userCardCount = 0 \/ remainingBallsCount <= 0

\* Slip: computed at any distance.
ProbHitAlways(needed, outs, remainingBallsCount) ==
  Quotient(Cardinality(outs), remainingBallsCount)

\* Slip: divides by the whole pool.
ProbHitOfPool(needed, outs, remainingBallsCount) ==
  IF needed = 1 THEN Quotient(Cardinality(outs), 90) ELSE ZeroProb

\* outs.size / remainingBallsCount, when one ball away, else 0
ProbHit(needed, outs, remainingBallsCount) ==
  IF needed = 1 THEN Quotient(Cardinality(outs), remainingBallsCount) ELSE ZeroProb

\* opponentCardCount * 3 * hypergeometric(90, 5, ballsDrawnCount, 4)
\* Slip: the three rows of an opponent card counted as one.
expectedOpponentReadyLinesPerCard(opponentCardCount, ballsDrawnCount) ==
  ExpectedReady(opponentCardCount, hypergeometricProbability(90, 5, ballsDrawnCount, 4))

expectedOpponentReadyLines(opponentCardCount, ballsDrawnCount) ==
  ExpectedReady(opponentCardCount * 3, hypergeometricProbability(90, 5, ballsDrawnCount, 4))

\* opponentCardCount * hypergeometric(90, 15, ballsDrawnCount, 14)
expectedOpponentReadyCards(opponentCardCount, ballsDrawnCount) ==
  ExpectedReady(opponentCardCount, hypergeometricProbability(90, 15, ballsDrawnCount, 14))

\* probHit * (1 - probOpponentWins), when one ball away, else 0
ProbUserWins(needed, probHit, remainingBallsCount, expected) ==
  IF needed = 1
    THEN Times(probHit, probOpponentWins(remainingBallsCount, expected))
    ELSE ZeroWin

calculateLiveProbabilities(cards, drawn, total) ==
  LET userCardCount == Len(cards)
      opponentCardCount == OpponentCardCount(total, userCardCount)
      ballsDrawnCount == Cardinality(drawn)
      remainingBallsCount == RemainingBallsCount(ballsDrawnCount)
  IN  IF IsDegenerate(userCardCount, remainingBallsCount) THEN initialResult
      ELSE
        LET minNeededForLine == MinNeededForLine(cards, drawn, 5)
            minNeededForBingo == MinNeededForBingo(cards, drawn, 15)
            lineOuts == CollectLineOuts(cards, drawn, minNeededForLine)
            bingoOuts == CollectBingoOuts(cards, drawn, minNeededForBingo)
            probHitLineOut == ProbHit(minNeededForLine, lineOuts, remainingBallsCount)
            probUserWinsLineNextDraw ==
              ProbUserWins(minNeededForLine, probHitLineOut, remainingBallsCount,
                           expectedOpponentReadyLines(opponentCardCount, ballsDrawnCount))
            probHitBingoOut == ProbHit(minNeededForBingo, bingoOuts, remainingBallsCount)
            probUserWinsBingoNextDraw ==
              ProbUserWins(minNeededForBingo, probHitBingoOut, remainingBallsCount,
                           expectedOpponentReadyCards(opponentCardCount, ballsDrawnCount))
        IN  [neededForLine |-> minNeededForLine,
             neededForBingo |-> minNeededForBingo,
             probHitLineOut |-> MinOne(probHitLineOut),
             probHitBingoOut |-> MinOne(probHitBingoOut),
             probUserWinsLineNextDraw |-> ClampWin(probUserWinsLineNextDraw),
             probUserWinsBingoNextDraw |-> ClampWin(probUserWinsBingoNextDraw),
             lineOuts |-> lineOuts,
             bingoOuts |-> bingoOuts]

(***************************************************************************)
(* The props of GameScreen: the cards and the number of cards in play.     *)
(* The cards are grids that processOcrGrid accepts: 3 rows of 9 cells, 15  *)
(* numbers, every number in the column of its tens.                        *)
(***************************************************************************)
N == Null

\* Five numbers in every row.
CardA ==
  << << 1, 12, 23, 34, 45,  N,  N,  N,  N>>,
     << N,  N,  N,  N, 46, 57, 68, 79, 90>>,
     << 5,  N, 25,  N, 48,  N, 65,  N, 85>> >>

\* Five numbers in every row; shares 1, 12, 23 and 34 with the first row of
\* CardA.
CardB ==
  << << 1, 12, 23, 34,  N, 51,  N,  N,  N>>,
     << N, 10,  N, 30,  N, 50,  N, 70, 80>>,
     << 9,  N, 29,  N, 49,  N, 69,  N, 89>> >>

\* Rows of six, five and four numbers.
CardC ==
  << << 2, 13, 24, 35, 47, 58,  N,  N,  N>>,
     << 3, 14,  N, 36,  N, 51, 66,  N,  N>>,
     << N,  N, 26,  N,  N, 59,  N, 78, 88>> >>

\* Rows of six, six and three numbers, and the number 51 in two rows.
CardD ==
  << << 7, 15,  N,  N,  N, 51, 61, 71, 81>>,
     << 6,  N, 27,  N,  N, 51, 62, 72, 82>>,
     << N, 16,  N, 37,  N,  N,  N,  N, 83>> >>

CardPool == {CardA, CardB, CardC, CardD}

CardLists == UNION {[1..n -> CardPool] : n \in 0..MaxCards}

(***************************************************************************)
(* The numbers the user marks.  Two numbers are marked and unmarked       *)
(* freely; the others are marked in one fixed order, the rest of CardA     *)
(* first and then by increasing value.                                     *)
(***************************************************************************)
FreeNumbers == {45, 51}

FirstDrawn == <<1, 12, 23, 34, 46, 57, 68, 79, 90, 5, 25, 48, 65, 85>>

Min(S) == CHOOSE x \in S : \A y \in S : x <= y

NextInOrder(drawn) ==
  LET early == {i \in DOMAIN FirstDrawn : FirstDrawn[i] \notin drawn}
      late == ((1..90) \ FreeNumbers) \ drawn
  IN  IF early # {} THEN {FirstDrawn[Min(early)]}
      ELSE IF late # {} THEN {Min(late)}
      ELSE {}

AddInputs(drawn) == FreeNumbers \cup NextInOrder(drawn)

(***************************************************************************)
(* Whole numbers beyond 32 bits: the sequence of the digits in base 10^4,  *)
(* lowest first, without leading zeros; <<>> is 0.                         *)
(***************************************************************************)
RECURSIVE BigOf(_)
BigOf(n) == IF n = 0 THEN <<>> ELSE <<n % 10000>> \o BigOf(n \div 10000)

RECURSIVE BigTrim(_)
BigTrim(a) ==
  IF a # <<>> /\ a[Len(a)] = 0 THEN BigTrim(SubSeq(a, 1, Len(a) - 1)) ELSE a

BigDigit(a, i) == IF i <= Len(a) THEN a[i] ELSE 0

RECURSIVE BigAddFrom(_, _, _, _)
BigAddFrom(a, b, i, carry) ==
  IF i > Len(a) /\ i > Len(b)
    THEN (IF carry = 0 THEN <<>> ELSE <<carry>>)
    ELSE LET sum == BigDigit(a, i) + BigDigit(b, i) + carry
         IN  <<sum % 10000>> \o BigAddFrom(a, b, i + 1, sum \div 10000)

BigAdd(a, b) == BigAddFrom(a, b, 1, 0)

\* a - b for a >= b.
RECURSIVE BigSubFrom(_, _, _, _)
BigSubFrom(a, b, i, borrow) ==
  IF i > Len(a) THEN <<>>
  ELSE LET diff == a[i] - BigDigit(b, i) - borrow
       IN  IF diff < 0
             THEN <<diff + 10000>> \o BigSubFrom(a, b, i + 1, 1)
             ELSE <<diff>> \o BigSubFrom(a, b, i + 1, 0)

BigSub(a, b) == BigTrim(BigSubFrom(a, b, 1, 0))

\* a * m for 0 <= m <= 10^5.
RECURSIVE BigTimesFrom(_, _, _, _)
BigTimesFrom(a, m, i, carry) ==
  IF i > Len(a) THEN BigOf(carry)
  ELSE LET product == a[i] * m + carry
       IN  <<product % 10000>> \o BigTimesFrom(a, m, i + 1, product \div 10000)

BigTimes(a, m) == IF m = 0 THEN <<>> ELSE BigTimesFrom(a, m, 1, 0)

RECURSIVE BigMulFrom(_, _, _)
BigMulFrom(a, b, i) ==
  IF i > Len(b) THEN <<>>
  ELSE LET rest == BigMulFrom(a, b, i + 1)
       IN  BigAdd(BigTimes(a, b[i]), IF rest = <<>> THEN <<>> ELSE <<0>> \o rest)

BigMul(a, b) == IF a = <<>> THEN <<>> ELSE BigMulFrom(a, b, 1)

RECURSIVE BigPow(_, _)
BigPow(a, n) ==
  IF n = 0 THEN <<1>>
  ELSE LET rest == BigPow(a, n - 1)
       IN  IF rest = <<>> THEN <<>> ELSE BigMul(a, rest)

\* The quotient of a by m, 1 <= m <= 10^5, digit by digit from the highest.
RECURSIVE BigOverFrom(_, _, _, _)
BigOverFrom(a, m, i, rem) ==
  IF i = 0 THEN <<>>
  ELSE LET part == rem * 10000 + a[i]
       IN  BigOverFrom(a, m, i - 1, part % m) \o <<part \div m>>

BigOver(a, m) == BigTrim(BigOverFrom(a, m, Len(a), 0))

RECURSIVE BigLessFrom(_, _, _)
BigLessFrom(a, b, i) ==
  IF i = 0 THEN FALSE
  ELSE IF a[i] # b[i] THEN a[i] < b[i]
  ELSE BigLessFrom(a, b, i - 1)

BigLess(a, b) ==
  IF Len(a) # Len(b) THEN Len(a) < Len(b) ELSE BigLessFrom(a, b, Len(a))

BigLeq(a, b) == ~BigLess(b, a)

\* A probability as the quotient of two whole numbers.
BigZero == [num |-> <<>>, den |-> <<1>>]
BigOne == [num |-> <<1>>, den |-> <<1>>]

BigRatLeq(p, q) == BigLeq(BigMul(p.num, q.den), BigMul(q.num, p.den))
BigRatEq(p, q) == BigMul(p.num, q.den) = BigMul(q.num, p.den)

\* 2^54: a positive double up to 2^-54 vanishes when it is subtracted from 1.
TwoTo54 == BigPow(<<2>>, 54)

(***************************************************************************)
(* The theoretical curve.  combinations and generateChartData are imported *)
(* by the earlier App from services/bingoCalculator and are not in the     *)
(* sources at hand; they are written here from the specification (4.1 and  *)
(* 4.3): the running product res = res * (n - i + 1) / i over the smaller  *)
(* of k and n - k, and for each draw k from 1 to 90 the probability that   *)
(* the 5 numbers of a line, or the 15 of a card, are among the k drawn.    *)
(***************************************************************************)
RECURSIVE combinationsProduct(_, _)
combinationsProduct(n, i) ==
  IF i = 0 THEN <<1>>
  ELSE LET res == combinationsProduct(n, i - 1)
       IN  IF res = <<>> THEN <<>> ELSE BigOver(BigTimes(res, n - i + 1), i)

\* Slip: the empty choice counted as impossible.
combinationsOfSome(n, k) ==
  IF k <= 0 \/ k > n THEN <<>>
  ELSE IF k = n THEN <<1>>
  ELSE combinationsProduct(n, IF k > n - k THEN n - k ELSE k)

combinations(n, k) ==
  IF k < 0 \/ k > n THEN <<>>
  ELSE IF k = 0 \/ k = n THEN <<1>>
  ELSE combinationsProduct(n, IF k > n - k THEN n - k ELSE k)

\* Slip: the numbers of the set are not taken out of the draw.
probabilityByDrawOfAll(size, k) ==
  IF k >= size
    THEN [num |-> combinations(90 - size, k), den |-> combinations(90, k)]
    ELSE BigZero

\* The probability that one card has completed, by draw k, a set of
\* `size` numbers.
probabilityByDraw(size, k) ==
  IF k >= size
    THEN [num |-> combinations(90 - size, k - size), den |-> combinations(90, k)]
    ELSE BigZero

generateChartData ==
  [k \in 1..90 |->
     [name |-> k, Linea |-> probabilityByDraw(5, k), Bingo |-> probabilityByDraw(15, k)]]

\* 1 - x for a double x in [0, 1]: 1 when x is at most 2^-54, and otherwise
\* the difference itself.
oneMinus(x) ==
  IF BigLeq(BigMul(x.num, TwoTo54), x.den) THEN BigOne
  ELSE [num |-> BigSub(x.den, x.num), den |-> x.den]

\* Slip: one card too many in the exponent.
powOfNext(x, cards) == [num |-> BigPow(x.num, cards + 1), den |-> BigPow(x.den, cards + 1)]

\* Math.pow(x, cards) for a whole number of cards.
pow(x, cards) == [num |-> BigPow(x.num, cards), den |-> BigPow(x.den, cards)]

\* Slip: the probability that no card has won is returned.
adjustedNone(d, cards) ==
  [name |-> d.name,
   Linea |-> pow(oneMinus(d.Linea), cards),
   Bingo |-> pow(oneMinus(d.Bingo), cards)]

\* The callback of data.map in handleCalculate.
adjusted(d, cards) ==
  LET probNoLineaOneCard == oneMinus(d.Linea)
      probNoBingoOneCard == oneMinus(d.Bingo)
      probNoLineaAllCards == pow(probNoLineaOneCard, cards)
      probNoBingoAllCards == pow(probNoBingoOneCard, cards)
  IN  [name |-> d.name,
       Linea |-> oneMinus(probNoLineaAllCards),
       Bingo |-> oneMinus(probNoBingoAllCards)]

NoCombination == [n |-> 0, k |-> 0, called |-> FALSE, value |-> <<>>]

\* The error of the theory calculator: '' or its one message.
NoError == ""
InvalidCardsError == "Por favor, introduce un numero valido de cartones."

\* The theory calculator as it is mounted.
CalculatorMounted ==
  /\ totalCardsStr = <<"1", "0", "0">>
  /\ totalCards = Null
  /\ chartData = <<>>
  /\ error = NoError
  /\ isCalculated = FALSE
  /\ data = <<>>
  /\ adjustedData = <<>>
  /\ combination = NoCombination

(***************************************************************************)
(* App: the setup screen, the OCR of a photographed card and the start of  *)
(* a game (src/App.tsx).                                                   *)
(***************************************************************************)
\* The largest number of OCR requests in flight.
MaxPending == 1

\* parseInt gives NaN for a text that does not start with a number.
NaN == -1000000

\* processOcrGrid returns null: no card.
NoCard == <<>>

\* The first render of GameScreen: nothing drawn, an empty field.
FirstRender == [drawnNumbers |-> {}, inputValue |-> <<>>, events |-> 0]

\* ocrError: null, or one of the two messages of runOcr.
NoOcrError == "null"
InvalidCardError == "No se han podido leer cartones validos en la imagen."
UnexpectedError == "Ha ocurrido un error inesperado al procesar la imagen."

\* setupError: '', or the message of handleConfirmStartGame, which names the
\* number of user cards.
NoSetupError == [cards |-> -1]
SetupErrorFor(cards) == [cards |-> cards]

\* A text is the sequence of its characters.
DigitValue ==
  [c \in {"0", "1", "2", "3", "4", "5", "6", "7", "8", "9"} |->
     CASE c = "0" -> 0 [] c = "1" -> 1 [] c = "2" -> 2 [] c = "3" -> 3 [] c = "4" -> 4
       [] c = "5" -> 5 [] c = "6" -> 6 [] c = "7" -> 7 [] c = "8" -> 8 [] c = "9" -> 9]

IsDigit(c) == c \in DOMAIN DigitValue

\* The digits of text from position i on, read as a decimal number that
\* continues acc; the reading stops at the first character that is no digit.
RECURSIVE ParseDigits(_, _, _)
ParseDigits(text, i, acc) ==
  IF i > Len(text) \/ ~IsDigit(text[i]) THEN acc
  ELSE ParseDigits(text, i + 1, acc * 10 + DigitValue[text[i]])

RECURSIVE SkipSpaces(_, _)
SkipSpaces(text, i) ==
  IF i <= Len(text) /\ text[i] = " " THEN SkipSpaces(text, i + 1) ELSE i

\* parseInt(text, 10): leading blanks are skipped, a sign is read, then the
\* digits up to the first other character; NaN when there is no digit.
parseInt(text) ==
  LET start == SkipSpaces(text, 1)
      signed == start <= Len(text) /\ text[start] \in {"-", "+"}
      first == IF signed THEN start + 1 ELSE start
  IN  IF first > Len(text) \/ ~IsDigit(text[first]) THEN NaN
      ELSE IF signed /\ text[start] = "-" THEN 0 - ParseDigits(text, first, 0)
      ELSE ParseDigits(text, first, 0)

isNaN(x) == x = NaN

\* What the total-cards field can hold: the presets and what is typed.
Presets == {<<"1", "0", "0">>}

TypedTexts == {<<>>, <<"2">>, <<"3", "x">>, <<"-", "4">>}

\* A cell of the grid the OCR answers: a number, null, or something else
\* (a text).
NumberCell(n) == [type |-> "number", value |-> n]
NullCell == [type |-> "object", value |-> 0]
TextCell == [type |-> "string", value |-> 0]

\* The grid that reads a card exactly.
GridOf(card) ==
  [r \in 1..3 |-> [c \in 1..9 |->
     IF card[r][c] = Null THEN NullCell ELSE NumberCell(card[r][c])]]

\* A row that is no array.
NoRow == <<>>

\* What the OCR can answer: the four cards read exactly; CardA with a 0, a
\* 91, a negative number or a text in an empty cell; CardA with a number
\* missing, with a number too many, with 1 and 12 in each other's column,
\* with 90 in the column of the seventies; a grid of two rows, one of four
\* rows, one with a row of eight cells and one with a row that is no array.
OcrGrids ==
  LET a == GridOf(CardA)
  IN  <<a, GridOf(CardB), GridOf(CardC), GridOf(CardD),
        [a EXCEPT ![1][6] = NumberCell(0)],
        [a EXCEPT ![1][9] = NumberCell(91)],
        [a EXCEPT ![1][6] = NumberCell(-5)],
        [a EXCEPT ![1][6] = TextCell],
        [a EXCEPT ![1][1] = NullCell],
        [a EXCEPT ![1][6] = NumberCell(55)],
        [a EXCEPT ![1][1] = NumberCell(12), ![1][2] = NumberCell(1)],
        [a EXCEPT ![2][8] = NumberCell(90), ![2][9] = NumberCell(80)],
        <<a[1], a[2]>>,
        <<a[1], a[2], a[3], a[3]>>,
        [a EXCEPT ![3] = SubSeq(a[3], 1, 8)],
        [a EXCEPT ![3] = NoRow]>>

\* The chain of comparisons of step 4, columns counted from 0.
expectedCol(num) ==
  IF num >= 1 /\ num <= 9 THEN 0
  ELSE IF num >= 10 /\ num <= 19 THEN 1
  ELSE IF num >= 20 /\ num <= 29 THEN 2
  ELSE IF num >= 30 /\ num <= 39 THEN 3
  ELSE IF num >= 40 /\ num <= 49 THEN 4
  ELSE IF num >= 50 /\ num <= 59 THEN 5
  ELSE IF num >= 60 /\ num <= 69 THEN 6
  ELSE IF num >= 70 /\ num <= 79 THEN 7
  ELSE IF num >= 80 /\ num <= 90 THEN 8
  ELSE -1

\* Step 2: a number from 1 to 90 stays, everything else becomes null.
sanitizedGrid(grid) ==
  [r \in 1..3 |-> [c \in 1..9 |->
     LET cell == grid[r][c]
     IN  IF cell.type = "number" /\ cell.value >= 1 /\ cell.value <= 90
           THEN cell.value
           ELSE Null]]

\* Slip: the count of the numbers is not checked.
processOcrGridOfAnyCount(grid) ==
  IF Len(grid) # 3 \/ ~(\A r \in 1..3 : grid[r] # NoRow /\ Len(grid[r]) = 9)
    THEN NoCard
    ELSE LET sanitized == sanitizedGrid(grid)
         IN  IF \E r \in 1..3, c \in 1..9 :
                    sanitized[r][c] # Null /\ c - 1 # expectedCol(sanitized[r][c])
               THEN NoCard
               ELSE sanitized

processOcrGrid(grid) ==
  IF Len(grid) # 3 \/ ~(\A r \in 1..3 : grid[r] # NoRow /\ Len(grid[r]) = 9)
    THEN NoCard
    ELSE LET sanitized == sanitizedGrid(grid)
             numbersCount ==
               Cardinality({rc \in (1..3) \X (1..9) : sanitized[rc[1]][rc[2]] # Null})
         IN  IF numbersCount # 15 THEN NoCard
             ELSE IF \E r \in 1..3, c \in 1..9 :
                       sanitized[r][c] # Null /\ c - 1 # expectedCol(sanitized[r][c])
               THEN NoCard
               ELSE sanitized

\* processOcrGrid of each answer.
processedCards == [answer \in DOMAIN OcrGrids |-> processOcrGrid(OcrGrids[answer])]

\* App as it is mounted.
AppMounted ==
  /\ view = "SETUP"
  /\ isLoadingOcr = FALSE
  /\ ocrError = NoOcrError
  /\ gameTotalCards = Null
  /\ startGamePromptVisible = FALSE
  /\ gameTotalCardsInput = <<"1", "0", "0">>
  /\ setupError = NoSetupError
  /\ ocrRequests = 0
  /\ staleOcrRequests = 0

(***************************************************************************)
(* GameScreen, as far as the engine is concerned: the drawn set and the    *)
(* snapshot computed from it.  The order of the marks and the input field, *)
(* which the engine never reads, are the matter of SpecScreen below.       *)
(***************************************************************************)
Init ==
  /\ userCards \in CardLists
  /\ totalCardsInPlay \in 0..MaxTotal
  /\ drawnNumbers = {}
  /\ liveStats = calculateLiveProbabilities(userCards, drawnNumbers, totalCardsInPlay)
  /\ hyper = NoCalls
  /\ AppMounted
  /\ drawnNumbersHistory = <<>>
  /\ inputValue = <<>>
  /\ rendered = FirstRender
  /\ CalculatorMounted

\* handleAddNumber, and the useMemo that recomputes liveStats on the render
\* that follows.
handleAddNumber(num) ==
  /\ num >= 1 /\ num <= 90 /\ num \notin drawnNumbers
  /\ drawnNumbers' = drawnNumbers \cup {num}
  /\ liveStats' = calculateLiveProbabilities(userCards, drawnNumbers', totalCardsInPlay)
  /\ UNCHANGED <<userCards, totalCardsInPlay, outsideEngine>>

handleRemoveNumber(num) ==
  /\ num \in drawnNumbers
  /\ drawnNumbers' = drawnNumbers \ {num}
  /\ liveStats' = calculateLiveProbabilities(userCards, drawnNumbers', totalCardsInPlay)
  /\ UNCHANGED <<userCards, totalCardsInPlay, outsideEngine>>

Next ==
  \/ \E num \in AddInputs(drawnNumbers) : handleAddNumber(num)
  \/ \E num \in FreeNumbers : handleRemoveNumber(num)

Spec == Init /\ [][Next]_vars

TypeOK ==
  /\ drawnNumbers \subseteq 1..90
  /\ Len(userCards) <= MaxCards
  /\ totalCardsInPlay \in 0..MaxTotal

(***************************************************************************)
(* What the properties below speak of, stated on the cells of the cards    *)
(* rather than by the engine's passes.                                     *)
(***************************************************************************)
Snapshot == liveStats

BallsDrawn == Cardinality(drawnNumbers)

BallsLeft == 90 - BallsDrawn

Engaged == Len(userCards) > 0 /\ BallsDrawn < 90

Opponents == totalCardsInPlay - Len(userCards)

AllRows == {cr \in (DOMAIN userCards) \X (1..3) : TRUE}

Cell(cr, k) == userCards[cr[1]][cr[2]][k]

NumberedCells(cr) == {k \in 1..9 : Cell(cr, k) # Null}

DrawnCells(cr) == {k \in NumberedCells(cr) : Cell(cr, k) \in drawnNumbers}

FiveRows == {cr \in AllRows : Cardinality(NumberedCells(cr)) = 5}

RowMissing(cr) == Cardinality(NumberedCells(cr) \ DrawnCells(cr))

RowValues(cr) == {Cell(cr, k) : k \in NumberedCells(cr)}

CardCells(c) == {rk \in (1..3) \X (1..9) : userCards[c][rk[1]][rk[2]] # Null}

CardDrawnCells(c) == {rk \in CardCells(c) : userCards[c][rk[1]][rk[2]] \in drawnNumbers}

CardMissing(c) == Cardinality(CardCells(c) \ CardDrawnCells(c))

CardValues(c) == {userCards[c][rk[1]][rk[2]] : rk \in CardCells(c)}

IsZeroProb(p) == p.num = 0

IsZeroWin(w) == w.hit.num = 0 \/ w.keep = "zero"

InUnitInterval(p) == p.den > 0 /\ 0 <= p.num /\ p.num <= p.den

WinInUnitInterval(w) == InUnitInterval(w.hit) /\ w.keep \in {"zero", "frac", "one"}

\* hit * keep <= p, keep being at most 1
WinLeq(w, p) == IsZeroWin(w) \/ RatLeq(w.hit, p)

\* hit * keep < p
WinLess(w, p) ==
  \/ IsZeroWin(w) /\ p.num > 0
  \/ RatLess(w.hit, p)
  \/ RatLeq(w.hit, p) /\ w.keep = "frac"

\* hit * keep = p
WinEquals(w, p) ==
  IF IsZeroWin(w) THEN p.num = 0 ELSE w.keep = "one" /\ w.hit = p

(***************************************************************************)
(* C1                                                                      *)
(***************************************************************************)
\* C1: with an empty card list, or with 90 or more numbers drawn, the
\* snapshot is the all-default one (Infinity needed twice, the four
\* probabilities 0, both sets of outs empty), whatever the cards and
\* whatever totalCardsInPlay.
C1_DefaultSnapshot ==
  (Len(userCards) = 0 \/ BallsDrawn >= 90) =>
    /\ Snapshot.neededForLine = Infinity
    /\ Snapshot.neededForBingo = Infinity
    /\ IsZeroProb(Snapshot.probHitLineOut)
    /\ IsZeroProb(Snapshot.probHitBingoOut)
    /\ IsZeroWin(Snapshot.probUserWinsLineNextDraw)
    /\ IsZeroWin(Snapshot.probUserWinsBingoNextDraw)
    /\ Snapshot.lineOuts = {}
    /\ Snapshot.bingoOuts = {}

\* All 90 numbers marked on a screen that holds cards and has opponents.
C1_Witness ==
  /\ Len(userCards) = 1
  /\ BallsDrawn = 90
  /\ Opponents > 0
  /\ Snapshot.neededForLine = Infinity
  /\ Snapshot.bingoOuts = {}

(***************************************************************************)
(* C2                                                                      *)
(***************************************************************************)
\* C2: with cards and fewer than 90 numbers drawn, neededForLine is the
\* minimum, over the rows with exactly 5 numbers of all cards, of 5 minus the
\* row's drawn numbers; rows with another count of numbers are ignored; with
\* no such row it is 5.
C2_NeededForLine ==
  Engaged =>
    IF FiveRows = {}
      THEN Snapshot.neededForLine = 5
      ELSE /\ \A cr \in FiveRows :
                Snapshot.neededForLine <= 5 - Cardinality(DrawnCells(cr))
           /\ \E cr \in FiveRows :
                Snapshot.neededForLine = 5 - Cardinality(DrawnCells(cr))

\* A row of six numbers has more numbers drawn than the closest row of five.
C2_Witness ==
  /\ Engaged
  /\ \E cr \in AllRows \ FiveRows :
       /\ Cardinality(NumberedCells(cr)) = 6
       /\ 5 - Cardinality(DrawnCells(cr)) < Snapshot.neededForLine
  /\ Snapshot.neededForLine \in 1..4

\* The ceiling: cards, but no row of five numbers.
C2_WitnessCeiling ==
  Engaged /\ FiveRows = {} /\ BallsDrawn > 40 /\ Snapshot.neededForLine = 5

(***************************************************************************)
(* C3                                                                      *)
(***************************************************************************)
\* C3: with cards and fewer than 90 numbers drawn, neededForBingo is the
\* minimum over the cards of 15 minus the card's numbered cells whose number
\* is drawn, and it lies in 0..15 when the cards have exactly 15 numbered
\* cells.
C3_NeededForBingo ==
  Engaged =>
    /\ \A c \in DOMAIN userCards :
         Snapshot.neededForBingo <= 15 - Cardinality(CardDrawnCells(c))
    /\ \E c \in DOMAIN userCards :
         Snapshot.neededForBingo = 15 - Cardinality(CardDrawnCells(c))
    /\ (\A c \in DOMAIN userCards : Cardinality(CardCells(c)) = 15)
         => Snapshot.neededForBingo \in 0..15

\* Two different cards, the closer one with a number that fills two cells.
C3_Witness ==
  /\ Engaged
  /\ Len(userCards) = 2
  /\ \E c, d \in DOMAIN userCards :
       /\ CardMissing(c) < CardMissing(d)
       /\ Cardinality(CardValues(c) \cap drawnNumbers) < Cardinality(CardDrawnCells(c))
       /\ Snapshot.neededForBingo = CardMissing(c)
  /\ Snapshot.neededForBingo \in 1..14

(***************************************************************************)
(* C4                                                                      *)
(***************************************************************************)
\* The undrawn numbers of the rows of five whose undrawn count is k.
ClosestRowNumbers(k) ==
  UNION {RowValues(cr) \ drawnNumbers : cr \in {x \in FiveRows : RowMissing(x) = k}}

\* C4: with neededForLine in 1..5, lineOuts is exactly the set of the undrawn
\* numbers that lie on a row of five whose count of undrawn numbers is
\* neededForLine; no drawn number is ever in lineOuts; lineOuts is empty when
\* neededForLine is 0.
C4_LineOuts ==
  /\ Snapshot.neededForLine \in 1..5
       => Snapshot.lineOuts = ClosestRowNumbers(Snapshot.neededForLine)
  /\ Snapshot.lineOuts \cap drawnNumbers = {}
  /\ Snapshot.neededForLine = 0 => Snapshot.lineOuts = {}

\* Two rows at the minimum share undrawn numbers, a third row is further
\* away, and some numbers of the closest rows are drawn.
C4_Witness ==
  /\ Snapshot.neededForLine \in 2..4
  /\ \E cr, ds \in FiveRows :
       /\ cr # ds
       /\ RowMissing(cr) = Snapshot.neededForLine
       /\ RowMissing(ds) = Snapshot.neededForLine
       /\ (RowValues(cr) \cap RowValues(ds)) \ drawnNumbers # {}
       /\ RowValues(cr) # RowValues(ds)
  /\ \E cr \in FiveRows : RowMissing(cr) > Snapshot.neededForLine
  /\ Cardinality(Snapshot.lineOuts) > Snapshot.neededForLine

(***************************************************************************)
(* C5                                                                      *)
(***************************************************************************)
\* The undrawn numbers of the cards whose count of undrawn cells is k.
ClosestCardNumbers(k) ==
  UNION {CardValues(c) \ drawnNumbers : c \in {x \in DOMAIN userCards : CardMissing(x) = k}}

\* C5: with neededForBingo in 1..15, bingoOuts is exactly the set of the
\* undrawn numbers of the cards whose count of undrawn numbered cells is
\* neededForBingo; no drawn number is ever in bingoOuts; bingoOuts is empty
\* when neededForBingo is 0.
C5_BingoOuts ==
  /\ Snapshot.neededForBingo \in 1..15
       => Snapshot.bingoOuts = ClosestCardNumbers(Snapshot.neededForBingo)
  /\ Snapshot.bingoOuts \cap drawnNumbers = {}
  /\ Snapshot.neededForBingo = 0 => Snapshot.bingoOuts = {}

\* Two different cards at the same distance, with numbers drawn.
C5_Witness ==
  /\ Snapshot.neededForBingo \in 1..14
  /\ Len(userCards) = 2
  /\ CardValues(1) # CardValues(2)
  /\ CardMissing(1) = CardMissing(2)
  /\ Snapshot.bingoOuts = (CardValues(1) \cup CardValues(2)) \ drawnNumbers
  /\ ~(Snapshot.bingoOuts \subseteq CardValues(1))

\* A card complete: nothing is missing.
C5_WitnessBingo ==
  Engaged /\ Snapshot.neededForBingo = 0 /\ Snapshot.bingoOuts = {}

(***************************************************************************)
(* C6                                                                      *)
(***************************************************************************)
\* C6 as stated: when neededForLine is not exactly 1 the two line
\* probabilities are 0 and lineOuts is empty, and when neededForBingo is not
\* exactly 1 the two bingo probabilities are 0 and bingoOuts is empty.
C6_AsStated ==
  /\ Snapshot.neededForLine # 1 =>
       /\ IsZeroProb(Snapshot.probHitLineOut)
       /\ IsZeroWin(Snapshot.probUserWinsLineNextDraw)
       /\ Snapshot.lineOuts = {}
  /\ Snapshot.neededForBingo # 1 =>
       /\ IsZeroProb(Snapshot.probHitBingoOut)
       /\ IsZeroWin(Snapshot.probUserWinsBingoNextDraw)
       /\ Snapshot.bingoOuts = {}

\* C6, amended: when neededForLine is not exactly 1 the two line
\* probabilities are 0, and when neededForBingo is not exactly 1 the two
\* bingo probabilities are 0; the outs are empty when the needed count is 0
\* or Infinity, and with a needed count of 2 or more they hold the undrawn
\* numbers of the closest rows or cards (for lines, when a row of five
\* exists).
C6_ZeroUnlessOneAway ==
  /\ Snapshot.neededForLine # 1 =>
       /\ IsZeroProb(Snapshot.probHitLineOut)
       /\ IsZeroWin(Snapshot.probUserWinsLineNextDraw)
  /\ Snapshot.neededForBingo # 1 =>
       /\ IsZeroProb(Snapshot.probHitBingoOut)
       /\ IsZeroWin(Snapshot.probUserWinsBingoNextDraw)
  /\ Snapshot.neededForLine \in {0, Infinity} => Snapshot.lineOuts = {}
  /\ Snapshot.neededForBingo \in {0, Infinity} => Snapshot.bingoOuts = {}
  /\ (Snapshot.neededForLine \in 2..5 /\ FiveRows # {}) => Snapshot.lineOuts # {}
  /\ Snapshot.neededForBingo \in 2..15 => Snapshot.bingoOuts # {}

\* Two and more away on both counts, with numbers drawn: outs, no
\* probabilities.
C6_Witness ==
  /\ BallsDrawn > 0
  /\ Snapshot.neededForLine \in 2..5
  /\ Snapshot.neededForBingo \in 2..15
  /\ Snapshot.lineOuts # {}
  /\ Snapshot.bingoOuts # {}
  /\ Snapshot.lineOuts # Snapshot.bingoOuts
  /\ IsZeroProb(Snapshot.probHitLineOut)
  /\ IsZeroWin(Snapshot.probUserWinsBingoNextDraw)

(***************************************************************************)
(* C7                                                                      *)
(***************************************************************************)
\* One card, 40 numbers drawn, one row of five missing exactly one number
\* and every other row of five missing more.
OneRowOneAway(cr) ==
  /\ Len(userCards) = 1
  /\ BallsDrawn = 40
  /\ cr \in FiveRows
  /\ RowMissing(cr) = 1
  /\ \A ds \in FiveRows \ {cr} : RowMissing(ds) > 1

\* C7: one ball away from a line, probHitLineOut is |lineOuts| / (90 - drawn),
\* and one ball away from bingo probHitBingoOut is |bingoOuts| / (90 - drawn);
\* one card with one row missing exactly one number after 40 drawn numbers
\* gives neededForLine = 1, that number alone in lineOuts, and
\* probHitLineOut = 1/50.
C7_HitProbability ==
  /\ Snapshot.neededForLine = 1 =>
       Snapshot.probHitLineOut.num * BallsLeft
         = Cardinality(Snapshot.lineOuts) * Snapshot.probHitLineOut.den
  /\ Snapshot.neededForBingo = 1 =>
       Snapshot.probHitBingoOut.num * BallsLeft
         = Cardinality(Snapshot.bingoOuts) * Snapshot.probHitBingoOut.den
  /\ \A cr \in AllRows :
       OneRowOneAway(cr) =>
         /\ Snapshot.neededForLine = 1
         /\ Snapshot.lineOuts = RowValues(cr) \ drawnNumbers
         /\ Cardinality(Snapshot.lineOuts) = 1
         /\ Snapshot.probHitLineOut.num * 50 = Snapshot.probHitLineOut.den

\* The scenario, with opponents in play.
C7_Witness ==
  /\ \E cr \in AllRows : OneRowOneAway(cr)
  /\ Opponents > 0
  /\ Snapshot.probHitLineOut = [num |-> 1, den |-> 50]

(***************************************************************************)
(* C8                                                                      *)
(***************************************************************************)
ExpectedLines == expectedOpponentReadyLines(OpponentCardCount(totalCardsInPlay, Len(userCards)), BallsDrawn)

ExpectedCards == expectedOpponentReadyCards(OpponentCardCount(totalCardsInPlay, Len(userCards)), BallsDrawn)

LineWinIsProduct ==
  Snapshot.probUserWinsLineNextDraw
    = Times(Snapshot.probHitLineOut, probOpponentWins(BallsLeft, ExpectedLines))

BingoWinIsProduct ==
  Snapshot.probUserWinsBingoNextDraw
    = Times(Snapshot.probHitBingoOut, probOpponentWins(BallsLeft, ExpectedCards))

\* C8 as stated: one ball away the win probability is
\* probHit * (1 - probOpponentWins), never above the hit probability, and
\* strictly below it whenever there are opponent cards and the expected
\* number of ready opponents is above 0; the same for bingo.
C8_AsStated ==
  /\ Snapshot.neededForLine = 1 =>
       /\ LineWinIsProduct
       /\ WinLeq(Snapshot.probUserWinsLineNextDraw, Snapshot.probHitLineOut)
       /\ (Opponents > 0 /\ ~ExpectedLines.zero)
            => WinLess(Snapshot.probUserWinsLineNextDraw, Snapshot.probHitLineOut)
  /\ Snapshot.neededForBingo = 1 =>
       /\ BingoWinIsProduct
       /\ WinLeq(Snapshot.probUserWinsBingoNextDraw, Snapshot.probHitBingoOut)
       /\ (Opponents > 0 /\ ~ExpectedCards.zero)
            => WinLess(Snapshot.probUserWinsBingoNextDraw, Snapshot.probHitBingoOut)

\* C8, amended: one ball away the win probability is
\* probHit * (1 - probOpponentWins), never above the hit probability; for a
\* line it is strictly below it whenever there are opponent cards and the
\* expected number of ready opponents is above 0; for bingo it is strictly
\* below it under the same condition once 15 or more numbers are drawn (with
\* exactly 14 drawn the factor can round to 1 and the two are equal).
C8_WinBelowHit ==
  /\ Snapshot.neededForLine = 1 =>
       /\ LineWinIsProduct
       /\ WinLeq(Snapshot.probUserWinsLineNextDraw, Snapshot.probHitLineOut)
       /\ (Opponents > 0 /\ ~ExpectedLines.zero)
            => WinLess(Snapshot.probUserWinsLineNextDraw, Snapshot.probHitLineOut)
  /\ Snapshot.neededForBingo = 1 =>
       /\ BingoWinIsProduct
       /\ WinLeq(Snapshot.probUserWinsBingoNextDraw, Snapshot.probHitBingoOut)
       /\ (Opponents > 0 /\ ~ExpectedCards.zero /\ BallsDrawn >= 15)
            => WinLess(Snapshot.probUserWinsBingoNextDraw, Snapshot.probHitBingoOut)

\* One ball from bingo with 15 or more numbers drawn and an opponent card:
\* the win probability is the hit probability times a factor below 1.
C8_Witness ==
  /\ Snapshot.neededForBingo = 1
  /\ BallsDrawn >= 15
  /\ Opponents > 0
  /\ Snapshot.probUserWinsBingoNextDraw.keep = "frac"
  /\ Snapshot.probUserWinsBingoNextDraw.hit = Snapshot.probHitBingoOut
  /\ WinLess(Snapshot.probUserWinsBingoNextDraw, Snapshot.probHitBingoOut)

\* One ball from a line with an opponent card.
C8_WitnessLine ==
  /\ Snapshot.neededForLine = 1
  /\ Opponents > 0
  /\ Snapshot.probUserWinsLineNextDraw.keep = "frac"
  /\ WinLess(Snapshot.probUserWinsLineNextDraw, Snapshot.probHitLineOut)

(***************************************************************************)
(* C9                                                                      *)
(***************************************************************************)
\* C9: the four probabilities of every snapshot lie in [0, 1], for any cards,
\* any drawn set and any totalCardsInPlay.
C9_Probabilities ==
  /\ InUnitInterval(Snapshot.probHitLineOut)
  /\ InUnitInterval(Snapshot.probHitBingoOut)
  /\ WinInUnitInterval(Snapshot.probUserWinsLineNextDraw)
  /\ WinInUnitInterval(Snapshot.probUserWinsBingoNextDraw)

\* The two ends at once: one ball left and it is the out, so the hit
\* probability is 1, and with an opponent card the win probability is 0.
C9_Witness ==
  /\ Snapshot.neededForLine = 1
  /\ BallsLeft = 1
  /\ Opponents > 0
  /\ Snapshot.probHitLineOut = OneProb
  /\ IsZeroWin(Snapshot.probUserWinsLineNextDraw)

(***************************************************************************)
(* hypergeometricProbability on its own: one population, one number of     *)
(* successes in it and one sample size are chosen, and the function is     *)
(* called for every number of successes in the sample from -1 to one more  *)
(* than the population.  The populations are the small ones, where every   *)
(* binomial coefficient is a 32-bit integer, and the engine's own (90      *)
(* balls, the 5 numbers of a row or the 15 of a card).                     *)
(***************************************************************************)
SampleSizesOfEngine == {-1, 0, 4, 14, 45, 89, 90, 91}

HyperInputs ==
  {[population |-> p, successesInPopulation |-> k, sampleSize |-> n]
     : p \in 0..MaxPopulation, k \in 0..MaxPopulation, n \in -1..(MaxPopulation + 1)}

HyperArguments ==
  {a \in HyperInputs : a.successesInPopulation <= a.population
                        /\ a.sampleSize <= a.population + 1}
  \cup {[population |-> 90, successesInPopulation |-> k, sampleSize |-> n]
          : k \in {5, 15}, n \in SampleSizesOfEngine}

\* C(n, k) by Pascal's rule.
RECURSIVE Choose(_, _)
Choose(n, k) ==
  IF k < 0 \/ k > n THEN 0
  ELSE IF k = 0 \/ k = n THEN 1
  ELSE Choose(n - 1, k - 1) + Choose(n - 1, k)

\* log(m) of an integer m >= 1 whose prime factors are at most 90, in
\* millionths.
RECURSIVE LnOfInteger(_)
LnOfInteger(m) ==
  IF m = 1 THEN 0
  ELSE LET d == Min({f \in 2..m : m % f = 0}) IN LnMicro[d] + LnOfInteger(m \div d)

\* Two logarithms of the same number, summed from differently rounded
\* table entries.
SameLog(a, b) == a - b <= 100 /\ b - a <= 100

\* The integer a with value = a / den, or -1 when value is no such quotient.
NumeratorOver(value, den) ==
  IF value.zero THEN 0
  ELSE LET fits == {a \in 1..den : SameLog(value.ln, LnOfInteger(a) - LnOfInteger(den))}
       IN  IF fits = {} THEN -1 ELSE Min(fits)

Summed(h) == h.population <= MaxPopulation /\ h.sampleSize \in 0..h.population

InitHyper ==
  /\ \E a \in HyperArguments :
        hyper = [population |-> a.population,
                 successesInPopulation |-> a.successesInPopulation,
                 sampleSize |-> a.sampleSize,
                 successesInSample |-> -2,
                 value |-> ZeroFloat,
                 sum |-> 0]
  /\ userCards = <<>>
  /\ totalCardsInPlay = 0
  /\ drawnNumbers = {}
  /\ liveStats = initialResult
  /\ AppMounted
  /\ drawnNumbersHistory = <<>>
  /\ inputValue = <<>>
  /\ rendered = FirstRender
  /\ CalculatorMounted

\* The next call of the series, and its value added to the sum (as a
\* multiple of 1 / C(population, sampleSize)).
CallHypergeometric ==
  /\ hyper.successesInSample <= hyper.population
  /\ LET x == hyper.successesInSample + 1
         value == hypergeometricProbability(hyper.population, hyper.successesInPopulation,
                                            hyper.sampleSize, x)
     IN  hyper' = [hyper EXCEPT
                     !.successesInSample = x,
                     !.value = value,
                     !.sum = IF Summed(hyper)
                               THEN @ + NumeratorOver(value, Choose(hyper.population,
                                                                    hyper.sampleSize))
                               ELSE @]
  /\ UNCHANGED <<userCards, totalCardsInPlay, drawnNumbers, liveStats, appVars,
                 drawnNumbersHistory, inputValue, rendered, calculatorVars>>

NextHyper == CallHypergeometric

SpecHyper == InitHyper /\ [][NextHyper]_vars

\* The arguments of the last call.
HyperCalled == hyper.successesInSample >= -1

HyperGuard ==
  \/ hyper.sampleSize < 0
  \/ hyper.successesInSample < 0
  \/ hyper.sampleSize > hyper.population
  \/ hyper.successesInSample > hyper.successesInPopulation
  \/ hyper.sampleSize - hyper.successesInSample
       > hyper.population - hyper.successesInPopulation

\* log C(n, k) by the multiplicative formula, the sum of log(n - k + i) -
\* log(i) for i = 1..k.
RECURSIVE LnChooseSteps(_, _, _)
LnChooseSteps(n, k, i) ==
  IF i = 0 THEN 0 ELSE LnMicro[n - k + i] - LnMicro[i] + LnChooseSteps(n, k, i - 1)

LnChoose(n, k) == IF k < 0 \/ k > n THEN NegInfinity ELSE LnChooseSteps(n, k, k)

\* C(K, x) * C(N - K, n - x) / C(N, n) as a double kept by its logarithm.
HyperFormula ==
  LET ways == LogAdd(LnChoose(hyper.successesInPopulation, hyper.successesInSample),
                     LnChoose(hyper.population - hyper.successesInPopulation,
                              hyper.sampleSize - hyper.successesInSample))
  IN  IF ways = NegInfinity THEN ZeroFloat
      ELSE [zero |-> FALSE, ln |-> ways - LnChoose(hyper.population, hyper.sampleSize)]

\* The same quotient from the integers, where they fit.
HyperQuotient ==
  LET ways == Choose(hyper.successesInPopulation, hyper.successesInSample)
              * Choose(hyper.population - hyper.successesInPopulation,
                       hyper.sampleSize - hyper.successesInSample)
  IN  NumeratorOver(hyper.value, Choose(hyper.population, hyper.sampleSize)) = ways

\* C11: hypergeometricProbability(N, K, n, x) is exactly 0 whenever n < 0,
\* x < 0, n > N, x > K or n - x > N - K, and for every other call with
\* 0 <= K <= N <= 90 it is C(K, x) * C(N - K, n - x) / C(N, n): the double
\* whose logarithm is that of the quotient, and for the small populations
\* the quotient of the integers themselves.
C11_Hypergeometric ==
  HyperCalled =>
    /\ HyperGuard => hyper.value = ZeroFloat
    /\ ~HyperGuard => hyper.value = HyperFormula
    /\ ~HyperGuard /\ hyper.population <= MaxPopulation => HyperQuotient

\* A sample larger than the population, a call the guard answers, and a call
\* that passes the guard with a positive value.
C11_Witness ==
  /\ HyperCalled
  /\ hyper.population = 90 /\ hyper.successesInPopulation = 5
  /\ hyper.sampleSize = 91 /\ hyper.successesInSample = 4

C11_WitnessValue ==
  /\ HyperCalled /\ ~HyperGuard
  /\ hyper.population = 90 /\ hyper.successesInPopulation = 15
  /\ hyper.sampleSize = 89 /\ hyper.successesInSample = 14
  /\ ~hyper.value.zero

\* C12: for a fixed population N, K in 0..N and n in 0..N, the values of
\* hypergeometricProbability(N, K, n, x) over all x sum to 1: as multiples
\* of 1 / C(N, n) they sum to C(N, n).
C12_SumsToOne ==
  (Summed(hyper) /\ hyper.successesInSample > hyper.population)
    => hyper.sum = Choose(hyper.population, hyper.sampleSize)

C12_Witness ==
  /\ Summed(hyper)
  /\ hyper.successesInSample > hyper.population
  /\ hyper.population = 7
  /\ hyper.successesInPopulation = 3 /\ hyper.sampleSize = 4
  /\ hyper.sum = 35

(***************************************************************************)
(* C19                                                                     *)
(***************************************************************************)
\* max(0, totalCardsInPlay - number of user cards)
OpponentCount == IF Opponents > 0 THEN Opponents ELSE 0

\* count * C(K, x) * C(90 - K, d - x) / C(90, d) with d numbers drawn, as a
\* double kept by its logarithm.
ReadyAmong(count, K, x) ==
  LET ways == LogAdd(LnChoose(K, x), LnChoose(90 - K, BallsDrawn - x))
  IN  IF count = 0 \/ ways = NegInfinity THEN ZeroFloat
      ELSE [zero |-> FALSE, ln |-> LnMicro[count] + ways - LnChoose(90, BallsDrawn)]

\* C19: the expected number of ready opponents is
\* opponentCount * 3 * hypergeometric(90, 5, drawnCount, 4) for lines and
\* opponentCount * hypergeometric(90, 15, drawnCount, 14) for bingo, with
\* opponentCount = max(0, totalCardsInPlay - userCardCount); whenever
\* totalCardsInPlay is at most the number of user cards the opponent term is
\* 0 and each win probability equals its hit probability.
C19_ExpectedOpponents ==
  Engaged =>
    /\ ExpectedLines = ReadyAmong(OpponentCount * 3, 5, 4)
    /\ ExpectedCards = ReadyAmong(OpponentCount, 15, 14)
    /\ LineWinIsProduct
    /\ BingoWinIsProduct
    /\ totalCardsInPlay <= Len(userCards) =>
         /\ ExpectedLines.zero
         /\ ExpectedCards.zero
         /\ probOpponentWins(BallsLeft, ExpectedLines) = "zero"
         /\ probOpponentWins(BallsLeft, ExpectedCards) = "zero"
         /\ WinEquals(Snapshot.probUserWinsLineNextDraw, Snapshot.probHitLineOut)
         /\ WinEquals(Snapshot.probUserWinsBingoNextDraw, Snapshot.probHitBingoOut)

\* No opponent card, one ball from a line: the win probability is the hit
\* probability, above 0.
C19_Witness ==
  /\ Engaged
  /\ totalCardsInPlay <= Len(userCards)
  /\ Snapshot.neededForLine = 1
  /\ Snapshot.probHitLineOut.num > 0
  /\ WinEquals(Snapshot.probUserWinsLineNextDraw, Snapshot.probHitLineOut)

\* An opponent card and four or more numbers drawn: ready rows are expected.
C19_WitnessOpponents ==
  /\ Engaged
  /\ OpponentCount > 0
  /\ BallsDrawn >= 15
  /\ ~ExpectedLines.zero
  /\ ~ExpectedCards.zero

(***************************************************************************)
(* C23                                                                     *)
(***************************************************************************)
\* The outs of a snapshot, when there are any, are at least as many as the
\* numbers needed.
OutsCoverNeeded(stats) ==
  /\ stats.lineOuts # {} => Cardinality(stats.lineOuts) >= stats.neededForLine
  /\ stats.bingoOuts # {} => Cardinality(stats.bingoOuts) >= stats.neededForBingo

\* C23: for cards that processOcrGrid accepts, a drawn set of at most 88
\* numbers and an undrawn number, adding the number lowers neededForLine by
\* exactly 1 if it is one of the lineOuts and leaves it as it is otherwise,
\* and likewise neededForBingo with the bingoOuts; and the outs, when there
\* are any, are at least as many as the numbers needed.
C23_NeededFollowsOuts ==
  [][\A num \in 1..90 :
       (Cardinality(drawnNumbers) <= 88 /\ handleAddNumber(num)) =>
         /\ liveStats'.neededForLine =
              IF num \in liveStats.lineOuts
                THEN liveStats.neededForLine - 1
                ELSE liveStats.neededForLine
         /\ liveStats'.neededForBingo =
              IF num \in liveStats.bingoOuts
                THEN liveStats.neededForBingo - 1
                ELSE liveStats.neededForBingo
         /\ OutsCoverNeeded(liveStats)
         /\ OutsCoverNeeded(liveStats')]_vars

(***************************************************************************)
(* C24                                                                     *)
(***************************************************************************)
\* C24: for a non-empty list of cards that processOcrGrid accepts and fewer
\* than 90 drawn numbers, neededForLine is at most neededForBingo: no
\* snapshot reports a completed bingo with an incomplete line.
C24_LineBeforeBingo ==
  (userCards # <<>> /\ Cardinality(drawnNumbers) < 90) =>
    /\ liveStats.neededForLine <= liveStats.neededForBingo
    /\ ~(liveStats.neededForBingo = 0 /\ liveStats.neededForLine > 0)

(***************************************************************************)
(* App.  The controls of the setup screen exist while view is SETUP; the   *)
(* answer of an OCR request arrives whenever it arrives.                   *)
(***************************************************************************)
InitApp ==
  /\ userCards = <<>>
  /\ AppMounted
  /\ totalCardsInPlay = 0
  /\ drawnNumbers = {}
  /\ liveStats = initialResult
  /\ hyper = NoCalls
  /\ drawnNumbersHistory = <<>>
  /\ inputValue = <<>>
  /\ rendered = FirstRender
  /\ CalculatorMounted

outsideApp == <<totalCardsInPlay, drawnNumbers, liveStats, hyper, drawnNumbersHistory,
                inputValue, rendered, calculatorVars>>

\* handleFileChange, and runOcr up to its first await.
handleFileChange(files) ==
  /\ view = "SETUP"
  /\ IF files > 0
       THEN /\ ocrRequests < MaxPending
            /\ isLoadingOcr' = TRUE
            /\ ocrError' = NoOcrError
            /\ ocrRequests' = ocrRequests + 1
       ELSE UNCHANGED <<isLoadingOcr, ocrError, ocrRequests>>
  /\ UNCHANGED <<userCards, view, gameTotalCards, startGamePromptVisible,
                 gameTotalCardsInput, setupError, staleOcrRequests, outsideApp>>

\* The request that ends is one of those in flight: one started before the
\* last onNewGame, or one started after it.
OneRequestEnds ==
  /\ ocrRequests' = ocrRequests - 1
  /\ \/ staleOcrRequests > 0 /\ staleOcrRequests' = staleOcrRequests - 1
     \/ staleOcrRequests < ocrRequests /\ staleOcrRequests' = staleOcrRequests

\* runOcr from the answer on, when the answer parses as a grid.
runOcrResolved(answer) ==
  /\ ocrRequests > 0
  /\ LET processedCard == processedCards[answer]
     IN  /\ processedCard # NoCard => Len(userCards) < MaxCards
         /\ IF processedCard # NoCard
              THEN userCards' = Append(userCards, processedCard) /\ UNCHANGED ocrError
              ELSE ocrError' = InvalidCardError /\ UNCHANGED userCards
  /\ isLoadingOcr' = FALSE
  /\ OneRequestEnds
  /\ UNCHANGED <<view, gameTotalCards, startGamePromptVisible, gameTotalCardsInput,
                 setupError, outsideApp>>

\* runOcr when the request or JSON.parse throws.
runOcrThrew ==
  /\ ocrRequests > 0
  /\ ocrError' = UnexpectedError
  /\ isLoadingOcr' = FALSE
  /\ OneRequestEnds
  /\ UNCHANGED <<userCards, view, gameTotalCards, startGamePromptVisible,
                 gameTotalCardsInput, setupError, outsideApp>>

\* The button on a card: setUserCards(cards => cards.filter((_, i) => i !== index))
removeCard(index) ==
  /\ view = "SETUP"
  /\ index \in DOMAIN userCards
  /\ userCards' = [i \in 1..(Len(userCards) - 1) |->
                     IF i < index THEN userCards[i] ELSE userCards[i + 1]]
  /\ UNCHANGED <<appVars, outsideApp>>

setStartGamePromptVisible(visible) ==
  /\ view = "SETUP"
  /\ Len(userCards) > 0
  /\ startGamePromptVisible # visible
  /\ startGamePromptVisible' = visible
  /\ UNCHANGED <<userCards, view, isLoadingOcr, ocrError, gameTotalCards,
                 gameTotalCardsInput, setupError, ocrRequests, staleOcrRequests,
                 outsideApp>>

setGameTotalCardsInput(value) ==
  /\ view = "SETUP"
  /\ Len(userCards) > 0
  /\ startGamePromptVisible
  /\ gameTotalCardsInput' = value
  /\ UNCHANGED <<userCards, view, isLoadingOcr, ocrError, gameTotalCards,
                 startGamePromptVisible, setupError, ocrRequests, staleOcrRequests,
                 outsideApp>>

handleConfirmStartGame ==
  /\ view = "SETUP"
  /\ Len(userCards) > 0
  /\ startGamePromptVisible
  /\ LET cards == parseInt(gameTotalCardsInput)
     IN  IF isNaN(cards) \/ cards <= Len(userCards)
           THEN /\ setupError' = SetupErrorFor(Len(userCards))
                /\ UNCHANGED <<gameTotalCards, view>>
           ELSE IF Len(userCards) > 0
             THEN /\ setupError' = NoSetupError
                  /\ gameTotalCards' = cards
                  /\ view' = "GAME"
             ELSE UNCHANGED <<setupError, gameTotalCards, view>>
  /\ UNCHANGED <<userCards, isLoadingOcr, ocrError, startGamePromptVisible,
                 gameTotalCardsInput, ocrRequests, staleOcrRequests, outsideApp>>

\* The button of GameScreen, which is rendered while view is GAME.
onNewGame ==
  /\ view = "GAME"
  /\ gameTotalCards # Null
  /\ userCards' = <<>>
  /\ gameTotalCards' = Null
  /\ startGamePromptVisible' = FALSE
  /\ view' = "SETUP"
  /\ staleOcrRequests' = ocrRequests
  /\ UNCHANGED <<isLoadingOcr, ocrError, gameTotalCardsInput, setupError, ocrRequests,
                 outsideApp>>

NextApp ==
  \/ \E files \in {0, 1} : handleFileChange(files)
  \/ \E answer \in DOMAIN OcrGrids : runOcrResolved(answer)
  \/ runOcrThrew
  \/ \E index \in 1..MaxCards : removeCard(index)
  \/ \E visible \in BOOLEAN : setStartGamePromptVisible(visible)
  \/ \E value \in Presets \cup TypedTexts : setGameTotalCardsInput(value)
  \/ handleConfirmStartGame
  \/ onNewGame

SpecApp == InitApp /\ [][NextApp]_vars

(***************************************************************************)
(* C16                                                                     *)
(***************************************************************************)
NumbersOfRow(card, r) == Cardinality({c \in 1..9 : card[r][c] # Null})

\* C16 as stated: every card that processOcrGrid accepts and runOcr appends
\* has exactly 15 numbered cells, exactly 5 of them in each of its 3 rows.
C16_FivePerRow ==
  \A i \in DOMAIN userCards :
    /\ NumbersOfRow(userCards[i], 1) + NumbersOfRow(userCards[i], 2)
         + NumbersOfRow(userCards[i], 3) = 15
    /\ \A r \in 1..3 : NumbersOfRow(userCards[i], r) = 5

(***************************************************************************)
(* C17                                                                     *)
(***************************************************************************)
IsArrayOfNine(row) == row # NoRow /\ Len(row) = 9

\* The cells of a 3 x 9 grid that hold a number from 1 to 90.
NumbersOfGrid(grid) ==
  {rc \in (1..3) \X (1..9) :
     /\ grid[rc[1]][rc[2]].type = "number"
     /\ grid[rc[1]][rc[2]].value \in 1..90}

\* Column floor(n / 10), and column 8 for 90; columns counted from 0.
ColumnOf(n) == IF n = 90 THEN 8 ELSE n \div 10

Acceptable(grid) ==
  /\ Len(grid) = 3
  /\ \A r \in 1..3 : IsArrayOfNine(grid[r])
  /\ Cardinality(NumbersOfGrid(grid)) = 15
  /\ \A rc \in NumbersOfGrid(grid) : rc[2] - 1 = ColumnOf(grid[rc[1]][rc[2]].value)

\* The grid with every cell that holds no number from 1 to 90 emptied.
Emptied(grid) ==
  [r \in 1..3 |-> [c \in 1..9 |->
     IF <<r, c>> \in NumbersOfGrid(grid) THEN grid[r][c].value ELSE Null]]

\* The answers that are acceptable grids, and the cards they show.
AcceptableAnswers == {answer \in DOMAIN OcrGrids : Acceptable(OcrGrids[answer])}

CardShown == [answer \in AcceptableAnswers |-> Emptied(OcrGrids[answer])]

\* C17: processOcrGrid returns a card only if the grid has 3 rows of 9 cells,
\* exactly 15 cells hold a number from 1 to 90 once every other value is
\* replaced by empty, and every number n sits in column floor(n / 10), 90 in
\* column 8; otherwise it returns null, and then the card list stays as it
\* is and the OCR error message is set.
C17_OcrValidation ==
  [][ocrRequests' < ocrRequests =>
       \A answer \in DOMAIN OcrGrids :
         runOcrResolved(answer) =>
           /\ processedCards[answer] # NoCard <=> answer \in AcceptableAnswers
           /\ answer \in AcceptableAnswers =>
                /\ processedCards[answer] = CardShown[answer]
                /\ userCards' = Append(userCards, CardShown[answer])
           /\ answer \notin AcceptableAnswers =>
                /\ userCards' = userCards
                /\ ocrError' = InvalidCardError]_vars

\* A card was accepted, and a later answer was refused.
C17_Witness ==
  /\ Len(userCards) = 1
  /\ ocrError = InvalidCardError
  /\ ~isLoadingOcr

(***************************************************************************)
(* C22                                                                     *)
(***************************************************************************)
\* C22: whenever the view is GAME, gameTotalCards is not null and is
\* greater than the number of user cards, which is at least 1, also when an
\* OCR request started in the SETUP view is answered after the game was
\* confirmed.
C22_GameView ==
  view = "GAME" =>
    /\ gameTotalCards # Null
    /\ gameTotalCards > Len(userCards)
    /\ Len(userCards) >= 1

(***************************************************************************)
(* C25                                                                     *)
(***************************************************************************)
\* C25: onNewGame returns to the SETUP view with an empty card list,
\* gameTotalCards null and the start prompt hidden, and the answer of an
\* OCR request started before onNewGame never adds a card to the list of
\* the new session.
C25_NewGame ==
  [][/\ onNewGame =>
          /\ view' = "SETUP"
          /\ userCards' = <<>>
          /\ gameTotalCards' = Null
          /\ ~startGamePromptVisible'
     /\ staleOcrRequests' < staleOcrRequests => userCards' = userCards]_vars

(***************************************************************************)
(* GameScreen with the order of the marks and the input field.  Every      *)
(* handler runs on the state of the last render.  The card list is empty,  *)
(* so the snapshot is the default one throughout.                          *)
(***************************************************************************)
\* The buttons of the number grid that are pressed, and the texts that are
\* typed into the field.
GridNumbers == {1, 45, 90}

ScreenTexts == {<<>>, <<"0">>, <<"7">>, <<"7", "x">>, <<"9", "0">>, <<"9", "1">>, <<"-", "3">>}

InitScreen ==
  /\ drawnNumbers = {}
  /\ drawnNumbersHistory = <<>>
  /\ inputValue = <<>>
  /\ rendered = FirstRender
  /\ userCards = <<>>
  /\ totalCardsInPlay = 0
  /\ liveStats = calculateLiveProbabilities(userCards, drawnNumbers, totalCardsInPlay)
  /\ hyper = NoCalls
  /\ AppMounted
  /\ CalculatorMounted

\* prev.filter(n => n !== num)
RECURSIVE filterOut(_, _)
filterOut(history, num) ==
  IF history = <<>> THEN <<>>
  ELSE IF Head(history) = num THEN filterOut(Tail(history), num)
  ELSE <<Head(history)>> \o filterOut(Tail(history), num)

\* Slip: the range of the number is not checked.
addNumberOfAnyRange(num) ==
  IF num \notin drawnNumbers
    THEN /\ drawnNumbers' = drawnNumbers \cup {num}
         /\ drawnNumbersHistory' = Append(drawnNumbersHistory, num)
    ELSE UNCHANGED <<drawnNumbers, drawnNumbersHistory>>

\* handleAddNumber, with the history.
addNumber(num) ==
  IF num >= 1 /\ num <= 90 /\ num \notin drawnNumbers
    THEN /\ drawnNumbers' = drawnNumbers \cup {num}
         /\ drawnNumbersHistory' = Append(drawnNumbersHistory, num)
    ELSE UNCHANGED <<drawnNumbers, drawnNumbersHistory>>

\* handleRemoveNumber, with the history.
removeNumber(num) ==
  IF num \in drawnNumbers
    THEN /\ drawnNumbers' = drawnNumbers \ {num}
         /\ drawnNumbersHistory' = filterOut(drawnNumbersHistory, num)
    ELSE UNCHANGED <<drawnNumbers, drawnNumbersHistory>>

\* The render that follows a handler: the useMemo of liveStats, and the new
\* closures of the handlers.
Rendered ==
  /\ liveStats' = calculateLiveProbabilities(userCards, drawnNumbers', totalCardsInPlay)
  /\ rendered' = [drawnNumbers |-> drawnNumbers', inputValue |-> inputValue', events |-> 0]
  /\ UNCHANGED <<userCards, totalCardsInPlay, hyper, appVars, calculatorVars>>

toggleNumber(num) ==
  /\ IF num \in drawnNumbers THEN removeNumber(num) ELSE addNumber(num)
  /\ UNCHANGED inputValue
  /\ Rendered

handleInputChange(value) ==
  /\ inputValue' = value
  /\ UNCHANGED <<drawnNumbers, drawnNumbersHistory>>
  /\ Rendered

handleInputSubmit ==
  /\ LET num == parseInt(inputValue)
     IN  IF ~isNaN(num)
           THEN addNumber(num) /\ inputValue' = <<>>
           ELSE UNCHANGED <<drawnNumbers, drawnNumbersHistory, inputValue>>
  /\ Rendered

NextScreen ==
  \/ \E num \in GridNumbers : toggleNumber(num)
  \/ \E value \in ScreenTexts : handleInputChange(value)
  \/ handleInputSubmit

SpecScreen == InitScreen /\ [][NextScreen]_vars

(***************************************************************************)
(* C18                                                                     *)
(***************************************************************************)
DrawnInRange ==
  /\ \A n \in drawnNumbers : n \in 1..90
  /\ Cardinality(drawnNumbers) <= 90
  /\ 90 - Cardinality(drawnNumbers) >= 0

\* The number a submission of the field adds, when the step is one.
SubmittedOutOfTurn ==
  LET num == parseInt(inputValue)
  IN  /\ handleInputSubmit
      /\ ~isNaN(num)
      /\ (num < 1 \/ num > 90 \/ num \in drawnNumbers)

\* C18: after any sequence of grid toggles, typed submissions, additions and
\* removals the drawn set holds only integers from 1 to 90, so its size is at
\* most 90 and the remaining count 90 - size is never negative; and the
\* addition of a number outside 1..90, or of one already drawn, leaves the
\* drawn set and the history as they are.
C18_DrawnSet ==
  [][/\ DrawnInRange'
     /\ SubmittedOutOfTurn =>
          /\ drawnNumbers' = drawnNumbers
          /\ drawnNumbersHistory' = drawnNumbersHistory]_vars

\* 90 was marked, 7 was typed and added, and 90 typed again changed nothing
\* but the field.
C18_Witness ==
  /\ drawnNumbers = {7, 90}
  /\ drawnNumbersHistory = <<90, 7>>
  /\ inputValue = <<>>

(***************************************************************************)
(* The theory calculator of the earlier App: the text of the card count,   *)
(* and handleCalculate, whose data.map is taken one point at a time.  No   *)
(* other handler runs while it does.                                       *)
(***************************************************************************)
DigitTexts == <<"1", "2", "3", "4", "5", "6", "7", "8", "9">>

ChartTexts ==
  {<<>>, <<"0">>, <<"a">>, <<"-", "1">>} \cup {<<DigitTexts[c]>> : c \in 1..MaxChartCards}

InitChart ==
  /\ userCards = <<>>
  /\ totalCardsInPlay = 0
  /\ drawnNumbers = {}
  /\ liveStats = initialResult
  /\ hyper = NoCalls
  /\ AppMounted
  /\ drawnNumbersHistory = <<>>
  /\ inputValue = <<>>
  /\ rendered = FirstRender
  /\ CalculatorMounted

outsideCalculator ==
  <<userCards, totalCardsInPlay, drawnNumbers, liveStats, hyper, appVars,
    drawnNumbersHistory, inputValue, rendered, combination>>

\* handleCalculate is between its first and its last statement.
Calculating == data # <<>>

\* onChange of the card-count field.
setTotalCardsStr(value) ==
  /\ ~Calculating
  /\ totalCardsStr' = value
  /\ UNCHANGED <<totalCards, chartData, error, isCalculated, data, adjustedData,
                 outsideCalculator>>

\* handleCalculate up to `const data = generateChartData()`.
handleCalculate ==
  /\ ~Calculating
  /\ LET cards == parseInt(totalCardsStr)
     IN  IF isNaN(cards) \/ cards <= 0
           THEN /\ error' = InvalidCardsError
                /\ totalCards' = Null
                /\ chartData' = <<>>
                /\ isCalculated' = FALSE
                /\ UNCHANGED <<data, adjustedData>>
           ELSE /\ cards <= MaxChartCards
                /\ error' = NoError
                /\ totalCards' = cards
                /\ data' = generateChartData
                /\ adjustedData' = <<>>
                /\ UNCHANGED <<chartData, isCalculated>>
  /\ UNCHANGED <<totalCardsStr, outsideCalculator>>

\* data.map: the callback on the next point.
mapData ==
  /\ Calculating
  /\ Len(adjustedData) < Len(data)
  /\ adjustedData' = Append(adjustedData, adjusted(data[Len(adjustedData) + 1], totalCards))
  /\ UNCHANGED <<totalCardsStr, totalCards, chartData, error, isCalculated, data,
                 outsideCalculator>>

\* setChartData(adjustedData); setIsCalculated(true).
setChartData ==
  /\ Calculating
  /\ Len(adjustedData) = Len(data)
  /\ chartData' = adjustedData
  /\ isCalculated' = TRUE
  /\ data' = <<>>
  /\ adjustedData' = <<>>
  /\ UNCHANGED <<totalCardsStr, totalCards, error, outsideCalculator>>

NextChart ==
  \/ \E value \in ChartTexts : setTotalCardsStr(value)
  \/ handleCalculate
  \/ mapData
  \/ setChartData

SpecChart == InitChart /\ [][NextChart]_vars

\* The draw whose point data.map has just adjusted.
Mapped == Len(adjustedData)

\* The series of a chart.
Series == {"Linea", "Bingo"}

\* The numbers a card needs for the series: 5 for a line, 15 for the card.
Threshold(series) == IF series = "Linea" THEN 5 ELSE 15

PlusUlp(p) ==
  [num |-> BigAdd(BigMul(p.num, BigPow(<<2>>, 53)), p.den),
   den |-> BigMul(p.den, BigPow(<<2>>, 53))]

RECURSIVE FallingProduct(_, _)
FallingProduct(n, count) ==
  IF count = 0 THEN <<1>>
  ELSE LET rest == FallingProduct(n, count - 1)
       IN  IF rest = <<>> THEN <<>> ELSE BigTimes(rest, n - count + 1)

\* The probability that `size` given numbers are all among k drawn of 90:
\* the first of them is among the k with probability k / 90, the next
\* with (k - 1) / 89, and so on.
AllDrawn(size, k) ==
  IF k < size THEN BigZero
  ELSE [num |-> FallingProduct(k, size), den |-> FallingProduct(90, size)]

CombinationArguments ==
  {[n |-> n, k |-> k, called |-> FALSE, value |-> <<>>] :
     n \in 0..90, k \in -1..91}

InitCombinations ==
  /\ combination \in {c \in CombinationArguments : c.k <= c.n + 1}
  /\ userCards = <<>>
  /\ totalCardsInPlay = 0
  /\ drawnNumbers = {}
  /\ liveStats = initialResult
  /\ hyper = NoCalls
  /\ AppMounted
  /\ drawnNumbersHistory = <<>>
  /\ inputValue = <<>>
  /\ rendered = FirstRender
  /\ totalCardsStr = <<"1", "0", "0">>
  /\ totalCards = Null
  /\ chartData = <<>>
  /\ error = NoError
  /\ isCalculated = FALSE
  /\ data = <<>>
  /\ adjustedData = <<>>

callCombinations ==
  /\ ~combination.called
  /\ combination' = [combination EXCEPT !.called = TRUE,
                                        !.value = combinations(combination.n, combination.k)]
  /\ UNCHANGED <<userCards, totalCardsInPlay, drawnNumbers, liveStats, hyper, appVars,
                 drawnNumbersHistory, inputValue, rendered, totalCardsStr, totalCards,
                 chartData, error, isCalculated, data, adjustedData>>

NextCombinations == callCombinations

SpecCombinations == InitCombinations /\ [][NextCombinations]_vars

\* C15: combinations(n, k) is 0 when k < 0 or k > n, is 1 when k = 0 or
\* k = n, and equals combinations(n, n - k) for n in 0..90 and k in 0..n.
C15_Combinations ==
  combination.called =>
    LET n == combination.n
        k == combination.k
    IN  /\ (k < 0 \/ k > n) => combination.value = <<>>
        /\ (k = 0 \/ k = n) => combination.value = <<1>>
        /\ (0 <= k /\ k <= n) => combination.value = combinations(n, n - k)

\* combinations(90, 75) is C(90, 15).
C15_Witness ==
  /\ combination.called
  /\ combination.n = 90
  /\ combination.k = 75
  /\ combination.value = <<816, 6446, 6739, 5795, 4>>

(***************************************************************************)
(* GameScreen when more than one event is handled before the component     *)
(* renders again.  A handler tests the drawnNumbers and reads the           *)
(* inputValue it closed over at the last render; its updaters               *)
(* (prev => ...) run on the state the earlier updaters left.               *)
(***************************************************************************)
InitUnrendered ==
  /\ drawnNumbers = {}
  /\ drawnNumbersHistory = <<>>
  /\ inputValue = <<>>
  /\ rendered = FirstRender
  /\ userCards = <<>>
  /\ totalCardsInPlay = 0
  /\ liveStats = calculateLiveProbabilities(userCards, drawnNumbers, totalCardsInPlay)
  /\ hyper = NoCalls
  /\ AppMounted
  /\ CalculatorMounted

\* handleAddNumber in the closure of the last render.
handleAddNumberOfRender(num) ==
  IF num >= 1 /\ num <= 90 /\ num \notin rendered.drawnNumbers
    THEN /\ drawnNumbers' = drawnNumbers \cup {num}
         /\ drawnNumbersHistory' = Append(drawnNumbersHistory, num)
    ELSE UNCHANGED <<drawnNumbers, drawnNumbersHistory>>

\* handleRemoveNumber in the closure of the last render.
handleRemoveNumberOfRender(num) ==
  IF num \in rendered.drawnNumbers
    THEN /\ drawnNumbers' = drawnNumbers \ {num}
         /\ drawnNumbersHistory' = filterOut(drawnNumbersHistory, num)
    ELSE UNCHANGED <<drawnNumbers, drawnNumbersHistory>>

\* One more event is handled and the component has not rendered again.
Unrendered ==
  /\ rendered.events < MaxUnrendered
  /\ rendered' = [rendered EXCEPT !.events = @ + 1]
  /\ UNCHANGED <<liveStats, userCards, totalCardsInPlay, hyper, appVars, calculatorVars>>

toggleNumberOfRender(num) ==
  /\ IF num \in rendered.drawnNumbers
       THEN handleRemoveNumberOfRender(num)
       ELSE handleAddNumberOfRender(num)
  /\ UNCHANGED inputValue
  /\ Unrendered

handleInputChangeOfRender(value) ==
  /\ inputValue' = value
  /\ UNCHANGED <<drawnNumbers, drawnNumbersHistory>>
  /\ Unrendered

handleInputSubmitOfRender ==
  /\ LET num == parseInt(rendered.inputValue)
     IN  IF ~isNaN(num)
           THEN handleAddNumberOfRender(num) /\ inputValue' = <<>>
           ELSE UNCHANGED <<drawnNumbers, drawnNumbersHistory, inputValue>>
  /\ Unrendered

\* The component renders the state the updaters left.
render ==
  /\ rendered.events > 0
  /\ rendered' = [drawnNumbers |-> drawnNumbers, inputValue |-> inputValue, events |-> 0]
  /\ liveStats' = calculateLiveProbabilities(userCards, drawnNumbers, totalCardsInPlay)
  /\ UNCHANGED <<drawnNumbers, drawnNumbersHistory, inputValue, userCards,
                 totalCardsInPlay, hyper, appVars, calculatorVars>>

NextUnrendered ==
  \/ \E num \in GridNumbers : toggleNumberOfRender(num)
  \/ \E value \in ScreenTexts : handleInputChangeOfRender(value)
  \/ handleInputSubmitOfRender
  \/ render

SpecUnrendered == InitUnrendered /\ [][NextUnrendered]_vars

(***************************************************************************)
(* C21                                                                     *)
(***************************************************************************)
\* drawnNumbersHistory[drawnNumbersHistory.length - 1] ?? null
lastCalledNumber ==
  IF drawnNumbersHistory = <<>> THEN Null ELSE drawnNumbersHistory[Len(drawnNumbersHistory)]

\* C21: after any sequence of additions, removals, toggles and submissions,
\* two calls for the same number before a render included, the history
\* holds every drawn number exactly once and nothing else, and the last
\* called number is a drawn number, or absent exactly when nothing is drawn.
C21_HistoryOfDrawn ==
  /\ {drawnNumbersHistory[i] : i \in DOMAIN drawnNumbersHistory} = drawnNumbers
  /\ Len(drawnNumbersHistory) = Cardinality(drawnNumbers)
  /\ lastCalledNumber = Null <=> drawnNumbers = {}
  /\ lastCalledNumber # Null => lastCalledNumber \in drawnNumbers

====
